---- MODULE Spec2Model ----
(***************************************************************************)
(* SAJ Solar & Battery Monitor: the polling cycle of                       *)
(* SajDataUpdateCoordinator, the fetchers and the source selection of      *)
(* SajApiClient.get_device_data, and the reconciliation functions          *)
(* _process_device_data, _process_battery_realtime_data and                *)
(* _process_solar_data, and the grid power and connection status entities  *)
(* that read the published mapping.                                        *)
(***************************************************************************)
EXTENDS Integers, Sequences, FiniteSets, TLC

VARIABLES
    devices,          \* SajDataUpdateCoordinator.devices: sequence of [sn, type]
    pc,               \* where _async_update_data is suspended
    k,                \* index of the device being fetched (0 outside a cycle)
    fetcher,          \* the fetcher of get_device_data that is suspended
    plant_stats,      \* locals of get_device_data
    device_info,
    load_monitoring,
    realtime_data,
    history_data,
    data,             \* local `data` of _async_update_data
    coordinator,      \* what the host sees: data, last_update_success
    outcome,          \* how the last _async_update_data ended
    token,            \* SajApiClient._token
    hdrToken,         \* accessToken header of the data request in flight
    tokCall,          \* number of the fetcher call whose request set _token
    nCalls,           \* fetcher calls started in this cycle
    nTok,             \* token requests issued in this cycle
    tokenResp,        \* last answer of the token endpoint in this cycle
    lastCall,         \* the last finished get_device_data call
    results,          \* how each get_device_data call of this cycle ended
    attempted,        \* the fetchers the running get_device_data call has called
    yday,             \* dt_util.now().timetuple().tm_yday
    rc_in,            \* arguments of a direct _process_device_data call
    rc_out,           \* its result
    published_before, \* serials of coordinator.data when the cycle started
    reading           \* the last entity state read by the host

vars == <<devices, pc, k, fetcher, plant_stats, device_info, load_monitoring,
          realtime_data, history_data, data, coordinator, outcome, token,
          hdrToken, tokCall, nCalls, nTok, tokenResp, lastCall, results,
          attempted, yday, rc_in, rc_out, published_before, reading>>

---------------------------------------------------------------------------
(* Vendor values: JSON numbers, numeric strings ("500") and other strings. *)

Num(n) == [str |-> FALSE, num |-> TRUE, n |-> n]
Str(n) == [str |-> TRUE, num |-> TRUE, n |-> n]
Text == [str |-> TRUE, num |-> FALSE, n |-> 0]

\* float(v) / int(v) succeed on numbers and numeric strings, raise ValueError otherwise
FloatOk(v) == v.num
FloatOf(v) == v.n
\* bool(v): a non-empty string is true, a number is true unless it is 0
Truthy(v) == v.str \/ v.n # 0

Abs(n) == IF n < 0 THEN -n ELSE n

\* float("inf") is a float: it is kept as a number above every finite reading
INFINITY == 1000000000
Inf == [str |-> TRUE, num |-> TRUE, n |-> INFINITY]
\* int(v) succeeds where float(v) does, except on a non-finite value
IntOk(v) == v.num /\ Abs(v.n) < INFINITY

RECURSIVE GCD(_, _)
GCD(a, b) == IF b = 0 THEN a ELSE GCD(b, a % b)

\* the float n / d, kept exact as a reduced fraction
Rat(n, d) ==
    LET g == GCD(Abs(n), Abs(d))
    IN  [rn |-> n \div g, rd |-> d \div g]

(* Mappings (dict) are functions on a set of keys; a fetch result is None  *)
(* or a mapping.                                                           *)
EmptyDict == <<>>
None == [some |-> FALSE, d |-> EmptyDict]
Some(d) == [some |-> TRUE, d |-> d]
\* bool(result): None and {} are false
NonEmpty(r) == r.some /\ DOMAIN r.d # {}
\* d.get(key, 0)
Get(d, key) == IF key \in DOMAIN d THEN d[key] ELSE Num(0)

\* load monitoring result: None or {"latest": .., "total": .., "module_sn": ..}
LmNone == [some |-> FALSE, latest |-> EmptyDict, total |-> EmptyDict]
LmSome(latest, total) == [some |-> TRUE, latest |-> latest, total |-> total]

DEVICE_TYPE_SOLAR == "solar"
DEVICE_TYPE_BATTERY == "battery"
DEVICE_TYPE_OTHER == "inverter"

\* a run of statements inside one try block: st.ok is false once one has raised
Begin == [ok |-> TRUE, p |-> EmptyDict]
From(p) == [ok |-> TRUE, p |-> p]
\* a statement that raises unless `good`, and otherwise stores upd
Step(st, good, upd) ==
    IF ~st.ok THEN st
    ELSE IF good THEN [ok |-> TRUE, p |-> upd @@ st.p]
    ELSE [ok |-> FALSE, p |-> st.p]
\* a statement under `if cond:` that raises unless `good`
StepIf(st, cond, good, upd) == IF cond THEN Step(st, good, upd) ELSE st
\* a statement with its own try/except: a failure changes nothing
Try(st, cond, good, upd) ==
    IF st.ok /\ cond /\ good THEN [ok |-> TRUE, p |-> upd @@ st.p] ELSE st

---------------------------------------------------------------------------
(* _process_battery_realtime_data *)

\* line 458: 1 is exporting, -1 is importing, anything else idle
BatteryGridDirection(grid_direction_value) ==
    IF grid_direction_value = 1 THEN "exporting"
    ELSE IF grid_direction_value = -1 THEN "importing"
    ELSE "idle"

\* lines 472-475
BatteryStatus(bat_direction, bat_power) ==
    IF bat_direction = 0 THEN "Standby"
    ELSE IF bat_power > 0 THEN "Discharging" ELSE "Charging"

RATE_NUM == 15
RATE_DEN == 100
DAYS_PER_YEAR == 365

\* energy / days_passed * 365, and that times 0.15
AnnualEstimates(energy, days_passed) ==
    ("estimated_annual_production" :> Rat(energy * DAYS_PER_YEAR, days_passed))
    @@ ("estimated_annual_savings" :>
            Rat(energy * DAYS_PER_YEAR * RATE_NUM, days_passed * RATE_DEN))

\* One try block from line 430 to 566: the first conversion that raises ends the
\* function, which returns what it has stored so far.
process_battery_realtime_data(d, day) ==
    LET F(key) == FloatOf(Get(d, key))
        ok(key) == FloatOk(Get(d, key))
        okInt(key) == IntOk(Get(d, key))
        has(key) == key \in DOMAIN d
        s1 == Step(Begin, ok("sysGridPowerWatt"),
                   "grid_power_abs" :> Abs(F("sysGridPowerWatt")))
        s2 == Step(s1, okInt("gridDirection"),
                   "grid_status_calculated" :> BatteryGridDirection(F("gridDirection")))
        s3 == Step(s2, ok("sysTotalLoadWatt"), "home_load_power" :> F("sysTotalLoadWatt"))
        s4 == Step(s3, ok("batPower") /\ ok("batEnergyPercent"),
                   ("battery_level" :> F("batEnergyPercent"))
                   @@ ("battery_power_abs" :> Abs(F("batPower"))))
        s5 == Step(s4, okInt("batteryDirection"),
                   "battery_status_calculated" :>
                       BatteryStatus(F("batteryDirection"), F("batPower")))
        s6 == StepIf(s5, has("batTempC") /\ Get(d, "batTempC") # Str(0),
                     ok("batTempC"), "battery_temp" :> F("batTempC"))
        s7 == StepIf(s6, has("sinkTempC") /\ Get(d, "sinkTempC") # Str(0),
                     ok("sinkTempC"), "sink_temp" :> F("sinkTempC"))
        s8 == Step(s7, ok("todayBatChgEnergy"),
                   "today_battery_charge" :> F("todayBatChgEnergy"))
        s9 == Step(s8, ok("todayBatDisEnergy"),
                   "today_battery_discharge" :> F("todayBatDisEnergy"))
        s10 == StepIf(s9, has("totalBatChgEnergy"), ok("totalBatChgEnergy"),
                      "total_battery_charge" :> F("totalBatChgEnergy"))
        s11 == StepIf(s10, has("totalBatDisEnergy"), ok("totalBatDisEnergy"),
                      "total_battery_discharge" :> F("totalBatDisEnergy"))
        s12 == Step(s11, ok("todayLoadEnergy"), "today_load_energy" :> F("todayLoadEnergy"))
        s13 == Step(s12, ok("todayPvEnergy"), "today_pv_energy" :> F("todayPvEnergy"))
        s14 == Step(s13, ok("totalPvEnergy"), "total_pv_energy" :> F("totalPvEnergy"))
        s15 == Try(s14, has("totalPVPower"), ok("totalPVPower"),
                   "total_pv_power_calculated" :> F("totalPVPower"))
        s16 == Step(s15, ok("todaySellEnergy"),
                    "today_grid_export_energy" :> F("todaySellEnergy"))
        s17 == Step(s16, ok("todayFeedInEnergy"),
                    "today_grid_import_energy" :> F("todayFeedInEnergy"))
        s18 == Try(s17, has("totalSellEnergy"), ok("totalSellEnergy"),
                   "total_grid_export" :> F("totalSellEnergy"))
        s19 == Try(s18, has("totalFeedInEnergy"), ok("totalFeedInEnergy"),
                   "total_grid_import" :> F("totalFeedInEnergy"))
        s20 == Try(s19, has("totalTotalLoadEnergy"), ok("totalTotalLoadEnergy"),
                   "total_load_energy" :> F("totalTotalLoadEnergy"))
        s21 == Try(s20, has("mpvMode"), okInt("mpvMode"),
                   ("operating_mode" :> F("mpvMode"))
                   @@ ("operating_status" :> F("mpvMode")))
        s22 == Try(s21, has("todayPvEnergy") /\ day > 0, ok("todayPvEnergy"),
                   AnnualEstimates(F("todayPvEnergy"), day))
    IN  s22.p

---------------------------------------------------------------------------
(* _process_solar_data *)

PV_INPUTS == 16
PvPowerKey ==
    <<"pv1power", "pv2power", "pv3power", "pv4power",
       "pv5power", "pv6power", "pv7power", "pv8power",
       "pv9power", "pv10power", "pv11power", "pv12power",
       "pv13power", "pv14power", "pv15power", "pv16power">>
PvVoltKey ==
    <<"pv1volt", "pv2volt", "pv3volt", "pv4volt",
       "pv5volt", "pv6volt", "pv7volt", "pv8volt",
       "pv9volt", "pv10volt", "pv11volt", "pv12volt",
       "pv13volt", "pv14volt", "pv15volt", "pv16volt">>
PvCurrKey ==
    <<"pv1curr", "pv2curr", "pv3curr", "pv4curr",
       "pv5curr", "pv6curr", "pv7curr", "pv8curr",
       "pv9curr", "pv10curr", "pv11curr", "pv12curr",
       "pv13curr", "pv14curr", "pv15curr", "pv16curr">>
PvPowerOut ==
    <<"pv1_power", "pv2_power", "pv3_power", "pv4_power",
       "pv5_power", "pv6_power", "pv7_power", "pv8_power",
       "pv9_power", "pv10_power", "pv11_power", "pv12_power",
       "pv13_power", "pv14_power", "pv15_power", "pv16_power">>
PvVoltageOut ==
    <<"pv1_voltage", "pv2_voltage", "pv3_voltage", "pv4_voltage",
       "pv5_voltage", "pv6_voltage", "pv7_voltage", "pv8_voltage",
       "pv9_voltage", "pv10_voltage", "pv11_voltage", "pv12_voltage",
       "pv13_voltage", "pv14_voltage", "pv15_voltage", "pv16_voltage">>
PvCurrentOut ==
    <<"pv1_current", "pv2_current", "pv3_current", "pv4_current",
       "pv5_current", "pv6_current", "pv7_current", "pv8_current",
       "pv9_current", "pv10_current", "pv11_current", "pv12_current",
       "pv13_current", "pv14_current", "pv15_current", "pv16_current">>

Phases == <<"r", "s", "t">>
PhasePowerKey == <<"rGridPowerWatt", "sGridPowerWatt", "tGridPowerWatt">>
PhaseVoltKey == <<"rGridVolt", "sGridVolt", "tGridVolt">>
PhaseCurrKey == <<"rGridCurr", "sGridCurr", "tGridCurr">>
PhaseFreqKey == <<"rGridFreq", "sGridFreq", "tGridFreq">>
PhasePowerOut == <<"r_phase_power", "s_phase_power", "t_phase_power">>
PhaseVoltageOut == <<"r_phase_voltage", "s_phase_voltage", "t_phase_voltage">>
PhaseCurrentOut == <<"r_phase_current", "s_phase_current", "t_phase_current">>
PhaseFrequencyOut == <<"r_phase_frequency", "s_phase_frequency", "t_phase_frequency">>

\* the entries of d under keys inKey[i], i in 1..n, that are present, true and
\* convert: each is stored under outKey[i] (every entry has its own try)
Copied(d, inKey, outKey, n) ==
    LET A == {i \in 1..n : inKey[i] \in DOMAIN d /\ Truthy(d[inKey[i]])
                           /\ FloatOk(d[inKey[i]])}
    IN  [key \in {outKey[i] : i \in A} |->
            FloatOf(d[inKey[CHOOSE i \in A : outKey[i] = key]])]

RECURSIVE SumValues(_)
SumValues(f) ==
    IF DOMAIN f = {} THEN 0
    ELSE LET x == CHOOSE x \in DOMAIN f : TRUE
         IN  f[x] + SumValues([y \in DOMAIN f \ {x} |-> f[y]])

\* lines 588-609
NighttimeFill ==
    ("total_pv_power_calculated" :> 0)
    @@ [key \in {PvPowerOut[i] : i \in 1..2} \cup {PvVoltageOut[i] : i \in 1..2}
                \cup {PvCurrentOut[i] : i \in 1..2} |-> 0]
    @@ [key \in {PhasePowerOut[i] : i \in 1..3} \cup {PhaseVoltageOut[i] : i \in 1..3}
                \cup {PhaseCurrentOut[i] : i \in 1..3}
                \cup {PhaseFrequencyOut[i] : i \in 1..3} |-> 0]
    @@ ("operating_mode" :> 0) @@ ("operating_status" :> 1)

\* a total that takes the explicit totalPVPower whenever it converts, 0 included
TotalPvPower_ExplicitAlways(d, total_pv_power) ==
    IF "totalPVPower" \in DOMAIN d /\ FloatOk(d["totalPVPower"])
    THEN FloatOf(d["totalPVPower"])
    ELSE IF total_pv_power > 0 THEN total_pv_power ELSE 0

\* lines 646-663
TotalPvPower(d, total_pv_power) ==
    IF "totalPVPower" \in DOMAIN d /\ FloatOk(d["totalPVPower"])
          /\ FloatOf(d["totalPVPower"]) > 0
    THEN FloatOf(d["totalPVPower"])
    ELSE IF total_pv_power > 0 THEN total_pv_power ELSE 0

\* lines 672-694 for one phase, inside the try of line 670
PhaseSteps(st, d, i) ==
    LET has(key) == key \in DOMAIN d /\ Truthy(d[key])
        a == StepIf(st, has(PhasePowerKey[i]), FloatOk(Get(d, PhasePowerKey[i])),
                    PhasePowerOut[i] :> FloatOf(Get(d, PhasePowerKey[i])))
        b == StepIf(a, has(PhaseVoltKey[i]), FloatOk(Get(d, PhaseVoltKey[i])),
                    PhaseVoltageOut[i] :> FloatOf(Get(d, PhaseVoltKey[i])))
        c == StepIf(b, has(PhaseCurrKey[i]), FloatOk(Get(d, PhaseCurrKey[i])),
                    PhaseCurrentOut[i] :> FloatOf(Get(d, PhaseCurrKey[i])))
    IN  StepIf(c, has(PhaseFreqKey[i]), FloatOk(Get(d, PhaseFreqKey[i])),
               PhaseFrequencyOut[i] :> FloatOf(Get(d, PhaseFreqKey[i])))

\* lines 610-714: the daytime PV, phase and temperature sections
DaytimeFields(d) ==
    LET pv == Copied(d, PvPowerKey, PvPowerOut, PV_INPUTS)
        volt == Copied(d, PvVoltKey, PvVoltageOut, PV_INPUTS)
        curr == Copied(d, PvCurrKey, PvCurrentOut, PV_INPUTS)
        p1 == ("total_pv_power_calculated" :> TotalPvPower(d, SumValues(pv)))
              @@ curr @@ volt @@ pv
        ph == PhaseSteps(PhaseSteps(PhaseSteps(From(p1), d, 1), d, 2), d, 3)
        total == SumValues(Copied(d, PhasePowerKey, PhasePowerOut, 3))
        p2 == Step(ph, TRUE, "total_phase_power" :> total).p
        hasT(key) == key \in DOMAIN d /\ Truthy(d[key])
        t1 == StepIf(From(p2), hasT("invTempC"), FloatOk(Get(d, "invTempC")),
                     "inverter_temp" :> FloatOf(Get(d, "invTempC")))
        t2 == StepIf(t1, hasT("sinkTempC"), FloatOk(Get(d, "sinkTempC")),
                     "sink_temp" :> FloatOf(Get(d, "sinkTempC")))
    IN  t2.p

\* lines 733 and 747: the sign of the net grid power
GridDirection(grid_power) ==
    IF grid_power < 0 THEN "exporting"
    ELSE IF grid_power > 0 THEN "importing" ELSE "idle"

GridFields(grid_power) ==
    ("grid_status_calculated" :> GridDirection(grid_power))
    @@ ("grid_power_abs" :> Abs(grid_power))

\* lines 716-755
SolarGrid(d, is_nighttime, lm) ==
    IF lm.some
    THEN IF "buyPower" \in DOMAIN lm.latest /\ "sellPower" \in DOMAIN lm.latest
            /\ FloatOk(lm.latest["buyPower"]) /\ FloatOk(lm.latest["sellPower"])
         THEN GridFields(FloatOf(lm.latest["buyPower"]) - FloatOf(lm.latest["sellPower"]))
         ELSE EmptyDict
    ELSE IF ~is_nighttime /\ "totalGridPowerWatt" \in DOMAIN d
            /\ FloatOk(d["totalGridPowerWatt"])
         THEN GridFields(FloatOf(d["totalGridPowerWatt"]))
         ELSE EmptyDict

\* lines 757-781
SolarLoad(d, is_nighttime, lm) ==
    IF lm.some
    THEN IF "loadPower" \in DOMAIN lm.latest /\ FloatOk(lm.latest["loadPower"])
         THEN "home_load_power" :> FloatOf(lm.latest["loadPower"])
         ELSE EmptyDict
    ELSE IF ~is_nighttime /\ "totalLoadPowerWatt" \in DOMAIN d
            /\ FloatOk(d["totalLoadPowerWatt"])
         THEN "home_load_power" :> FloatOf(d["totalLoadPowerWatt"])
         ELSE EmptyDict

\* lines 784-813 (and 983-1014): one try block over the plant statistics
PlantFields(ps, day) ==
    IF ~NonEmpty(ps) THEN EmptyDict
    ELSE LET has(key) == key \in DOMAIN ps.d
             a == StepIf(Begin, has("totalReduceCo2"), FloatOk(Get(ps.d, "totalReduceCo2")),
                         "co2_reduction" :> FloatOf(Get(ps.d, "totalReduceCo2")))
             b == StepIf(a, has("totalPlantTreeNum"),
                         FloatOk(Get(ps.d, "totalPlantTreeNum")),
                         "equivalent_trees" :> FloatOf(Get(ps.d, "totalPlantTreeNum")))
             c == StepIf(b, has("yearPvEnergy"), FloatOk(Get(ps.d, "yearPvEnergy")),
                         IF day > 0
                         THEN AnnualEstimates(FloatOf(Get(ps.d, "yearPvEnergy")), day)
                         ELSE EmptyDict)
         IN  c.p

\* lines 815-863: today's and total energy from the primary source / plant stats
SolarEnergy(d, is_nighttime, ps) ==
    LET today(key, out) ==
            IF is_nighttime THEN out :> 0
            ELSE IF key \in DOMAIN d
                 THEN out :> (IF FloatOk(d[key]) THEN FloatOf(d[key]) ELSE 0)
                 ELSE EmptyDict
        total(key, out) ==
            IF key \in DOMAIN d
            THEN IF FloatOk(d[key]) THEN out :> FloatOf(d[key]) ELSE EmptyDict
            ELSE IF NonEmpty(ps) /\ key \in DOMAIN ps.d /\ FloatOk(ps.d[key])
                 THEN out :> FloatOf(ps.d[key])
                 ELSE EmptyDict
    IN  total("totalSellEnergy", "total_grid_export")
        @@ today("todaySellEnergy", "today_grid_export_energy")
        @@ total("totalPvEnergy", "total_pv_energy")
        @@ today("todayPvEnergy", "today_pv_energy")

\* lines 865-908: the load monitoring totals, written over what is there
LoadMonitoringEnergy(p, lm) ==
    IF ~lm.some THEN p
    ELSE LET t == lm.total
             good(key) == key \in DOMAIN t /\ FloatOk(t[key])
             a == IF good("pvEnergy")
                  THEN ("today_pv_energy" :> FloatOf(t["pvEnergy"])) @@ p ELSE p
             b == IF good("loadEnergy")
                  THEN ("total_load_energy" :> FloatOf(t["loadEnergy"])) @@ a ELSE a
             c == IF good("buyEnergy")
                  THEN ("total_grid_import" :> FloatOf(t["buyEnergy"]))
                       @@ ("today_grid_import_energy" :> FloatOf(t["buyEnergy"])) @@ b
                  ELSE b
         IN  IF good("sellEnergy")
             THEN ("today_grid_export_energy" :> FloatOf(t["sellEnergy"]))
                  @@ (IF "total_grid_export" \in DOMAIN c THEN EmptyDict
                      ELSE "total_grid_export" :> FloatOf(t["sellEnergy"]))
                  @@ c
             ELSE c

process_solar_data(d, is_realtime, is_nighttime, lm, ps, day) ==
    LET p1 == IF is_nighttime THEN NighttimeFill ELSE DaytimeFields(d)
        p2 == SolarGrid(d, is_nighttime, lm) @@ p1
        p3 == SolarLoad(d, is_nighttime, lm) @@ p2
        p4 == PlantFields(ps, day) @@ p3
        p5 == SolarEnergy(d, is_nighttime, ps) @@ p4
    IN  LoadMonitoringEnergy(p5, lm)

---------------------------------------------------------------------------
(* _process_device_data *)

\* lines 939-963: a battery processed from history data
BatteryHistoryFields(d) ==
    IF FloatOk(Get(d, "batPower"))
    THEN LET bat_power == FloatOf(Get(d, "batPower"))
         IN  ("battery_status_calculated" :>
                 (IF bat_power > 0 THEN "Discharging"
                  ELSE IF bat_power < 0 THEN "Charging" ELSE "Standby"))
             @@ ("battery_power_abs" :> Abs(bat_power))
    ELSE EmptyDict

\* lines 965-980
TemperatureFields(d) ==
    LET hasT(key) == key \in DOMAIN d /\ Truthy(d[key])
        t1 == StepIf(Begin, hasT("invTempC"), FloatOk(Get(d, "invTempC")),
                     "inverter_temp" :> FloatOf(Get(d, "invTempC")))
        t2 == StepIf(t1, hasT("sinkTempC"), FloatOk(Get(d, "sinkTempC")),
                     "sink_temp" :> FloatOf(Get(d, "sinkTempC")))
    IN  t2.p

\* line 936
IsNighttime(data_to_process, is_realtime) ==
    ~NonEmpty(data_to_process)
    \/ (is_realtime /\ ~("isOnline" \in DOMAIN data_to_process.d
                         /\ data_to_process.d["isOnline"] = Str(1)))

process_device_data(data_to_process, ps, device_type, is_realtime, lm, day) ==
    IF ~NonEmpty(data_to_process) /\ device_type # DEVICE_TYPE_SOLAR THEN EmptyDict
    ELSE IF is_realtime /\ device_type = DEVICE_TYPE_BATTERY
    THEN process_battery_realtime_data(data_to_process.d, day)
    ELSE IF device_type = DEVICE_TYPE_SOLAR
    THEN process_solar_data(data_to_process.d, is_realtime,
                            IsNighttime(data_to_process, is_realtime), lm, ps, day)
    ELSE PlantFields(ps, day)
         @@ TemperatureFields(data_to_process.d)
         @@ (IF device_type = DEVICE_TYPE_BATTERY
             THEN BatteryHistoryFields(data_to_process.d) ELSE EmptyDict)

---------------------------------------------------------------------------
(* What the vendor API answers.                                            *)

PlantSample ==
    ("yearPvEnergy" :> Num(3650)) @@ ("totalReduceCo2" :> Str(12))
    @@ ("totalPvEnergy" :> Str(9000))
InfoSample == "deviceModel" :> Text
BatterySample ==
    ("sysGridPowerWatt" :> Num(-500)) @@ ("gridDirection" :> Num(1))
    @@ ("batPower" :> Num(200)) @@ ("batteryDirection" :> Num(-1))
    @@ ("batEnergyPercent" :> Num(77)) @@ ("isOnline" :> Str(1))
SolarOnline ==
    ("isOnline" :> Str(1)) @@ ("totalPVPower" :> Str(1200))
    @@ ("totalGridPowerWatt" :> Str(-300)) @@ ("todayPvEnergy" :> Str(7))
SolarOffline == "isOnline" :> Str(0)
HistorySample ==
    ("pv1power" :> Str(100)) @@ ("pv2power" :> Str(50)) @@ ("totalPVPower" :> Str(0))
    @@ ("totalGridPowerWatt" :> Str(200))
LmSample ==
    LmSome(("loadPower" :> Num(300)) @@ ("buyPower" :> Num(400)) @@ ("sellPower" :> Num(100)),
           ("pvEnergy" :> Num(5)) @@ ("sellEnergy" :> Num(2)))

Fetchers == {"plant_stats", "device_info", "load_monitoring", "realtime", "history"}

\* the payload (data["data"], or the latest point) of a successful answer
Payloads(f, device_type) ==
    IF f = "plant_stats" THEN {Some(PlantSample)}
    ELSE IF f = "device_info" THEN {Some(InfoSample)}
    ELSE IF f = "load_monitoring" THEN {LmSample}
    ELSE IF f = "history" THEN {Some(HistorySample)}
    ELSE IF device_type = DEVICE_TYPE_BATTERY
         THEN {Some(EmptyDict), Some(BatterySample)}
         ELSE {Some(EmptyDict), Some(SolarOnline), Some(SolarOffline)}

TokenOutcomes == {"ok", "invalid", "timeout", "client_error"}
DataOutcomes(f) ==
    {"ok", "bad_code", "timeout", "client_error"}
    \cup (IF f = "history" THEN {"request_success_no_data", "no_data", "empty_list"}
          ELSE IF f = "load_monitoring" THEN {"not_bound", "no_points"} ELSE {})

NoneOf(f) == IF f = "load_monitoring" THEN LmNone ELSE None

\* _make_api_request lines 99-114, get_history_data lines 165-198,
\* get_load_monitoring_data lines 251-300: what the fetcher returns
FetcherResult(f, kind, payload) ==
    IF kind = "ok" THEN payload
    ELSE IF f = "history" /\ kind = "request_success_no_data" THEN Some(EmptyDict)
    ELSE NoneOf(f)

\* a client that asks for a token only while it holds none
NeedsTokenRequest_Cached(cached) == cached = 0

\* _get_token line 41: a new token is requested on every call
NeedsTokenRequest(cached) == TRUE

\* the token endpoint hands out a new token to every request: the n-th request
\* of a cycle gets token n
FreshToken(n) == n

---------------------------------------------------------------------------
(* get_device_data *)

\* an order that fetches load monitoring for every device type
NextFetcher_LoadMonitoringForAll(device_type, f) ==
    IF f = "plant_stats" THEN "device_info"
    ELSE IF f = "device_info" THEN "load_monitoring"
    ELSE IF f = "load_monitoring"
         THEN IF device_type \in {DEVICE_TYPE_SOLAR, DEVICE_TYPE_BATTERY}
              THEN "realtime" ELSE "history"
    ELSE IF f = "realtime"
         THEN IF device_type = DEVICE_TYPE_SOLAR THEN "history" ELSE "done"
    ELSE "done"

\* an order that leaves out the device details
NextFetcher_SkipsDeviceInfo(device_type, f) ==
    IF f \in {"plant_stats", "device_info"}
    THEN IF device_type = DEVICE_TYPE_BATTERY THEN "realtime" ELSE "load_monitoring"
    ELSE IF f = "load_monitoring"
         THEN IF device_type = DEVICE_TYPE_SOLAR THEN "realtime" ELSE "history"
    ELSE IF f = "realtime"
         THEN IF device_type = DEVICE_TYPE_SOLAR THEN "history" ELSE "done"
    ELSE "done"

\* lines 313-359: the order of the fetchers, by device type
NextFetcher(device_type, f) ==
    IF f = "plant_stats" THEN "device_info"
    ELSE IF f = "device_info"
         THEN IF device_type = DEVICE_TYPE_BATTERY THEN "realtime" ELSE "load_monitoring"
    ELSE IF f = "load_monitoring"
         THEN IF device_type = DEVICE_TYPE_SOLAR THEN "realtime" ELSE "history"
    ELSE IF f = "realtime"
         THEN IF device_type = DEVICE_TYPE_SOLAR THEN "history" ELSE "done"
    ELSE "done"

\* a battery check that tests the realtime result against None only
DeviceFails_RealtimeNotNone(device_type, rt, hist, lm) ==
    IF device_type = DEVICE_TYPE_BATTERY THEN ~rt.some
    ELSE IF device_type = DEVICE_TYPE_SOLAR
         THEN ~NonEmpty(hist) /\ ~NonEmpty(rt) /\ ~lm.some
    ELSE ~NonEmpty(hist)

\* a check for the other device types that tests the history result against
\* None only
DeviceFails_HistoryNotNone(device_type, rt, hist, lm) ==
    IF device_type = DEVICE_TYPE_BATTERY THEN ~NonEmpty(rt)
    ELSE IF device_type = DEVICE_TYPE_SOLAR
         THEN ~NonEmpty(hist) /\ ~NonEmpty(rt) /\ ~lm.some
    ELSE ~hist.some

\* a check that lets a solar device through with nothing fetched
DeviceFails_SolarNeverFails(device_type, rt, hist, lm) ==
    IF device_type = DEVICE_TYPE_BATTERY THEN ~NonEmpty(rt)
    ELSE IF device_type = DEVICE_TYPE_SOLAR THEN FALSE
    ELSE ~NonEmpty(hist)

\* lines 331-359: the early `return None`
DeviceFails(device_type, rt, hist, lm) ==
    IF device_type = DEVICE_TYPE_BATTERY THEN ~NonEmpty(rt)
    ELSE IF device_type = DEVICE_TYPE_SOLAR
         THEN ~NonEmpty(hist) /\ ~NonEmpty(rt) /\ ~lm.some
    ELSE ~NonEmpty(hist)

\* a selection that prefers the history sample to an online realtime sample
SelectSource_HistoryFirst(device_type, rt, hist) ==
    IF device_type = DEVICE_TYPE_BATTERY
    THEN [is_realtime |-> TRUE, data_to_process |-> rt]
    ELSE IF device_type = DEVICE_TYPE_SOLAR
    THEN IF NonEmpty(hist)
         THEN [is_realtime |-> FALSE, data_to_process |-> hist]
         ELSE IF NonEmpty(rt) /\ "isOnline" \in DOMAIN rt.d /\ rt.d["isOnline"] = Str(1)
         THEN [is_realtime |-> TRUE, data_to_process |-> rt]
         ELSE [is_realtime |-> FALSE, data_to_process |-> Some(EmptyDict)]
    ELSE [is_realtime |-> FALSE, data_to_process |-> hist]

\* lines 363-390: is_realtime and data_to_process
SelectSource(device_type, rt, hist) ==
    IF device_type = DEVICE_TYPE_BATTERY
    THEN [is_realtime |-> TRUE, data_to_process |-> rt]
    ELSE IF device_type = DEVICE_TYPE_SOLAR
    THEN IF NonEmpty(rt) /\ "isOnline" \in DOMAIN rt.d /\ rt.d["isOnline"] = Str(1)
         THEN [is_realtime |-> TRUE, data_to_process |-> rt]
         ELSE IF NonEmpty(hist)
         THEN [is_realtime |-> FALSE, data_to_process |-> hist]
         ELSE [is_realtime |-> FALSE, data_to_process |-> Some(EmptyDict)]
    ELSE [is_realtime |-> FALSE, data_to_process |-> hist]

\* lines 393-411: the snapshot
Snapshot(device_type, ps, di, lm, rt, hist, day) ==
    LET sel == SelectSource(device_type, rt, hist)
    IN  [device_info |-> di, plant_stats |-> ps, history_data |-> hist,
         realtime_data |-> rt, load_monitoring |-> lm, device_type |-> device_type,
         processed_data |-> process_device_data(sel.data_to_process, ps, device_type,
                                                sel.is_realtime, lm, day)]

NoCall ==
    [sn |-> "", type |-> "", result |-> "nocall", plant_stats |-> None,
     device_info |-> None, load_monitoring |-> LmNone, realtime_data |-> None,
     history_data |-> None, data_to_process |-> None, is_realtime |-> FALSE,
     is_nighttime |-> FALSE, attempted |-> {}]

\* the record of a finished call: its fetched results, whether it returned a
\* snapshot, and what it handed to _process_device_data
CallRecord(dev, ps, di, lm, rt, hist) ==
    LET fails == DeviceFails(dev.type, rt, hist, lm)
        sel == SelectSource(dev.type, rt, hist)
    IN  [sn |-> dev.sn, type |-> dev.type,
         result |-> IF fails THEN "none" ELSE "snapshot",
         plant_stats |-> ps, device_info |-> di, load_monitoring |-> lm,
         realtime_data |-> rt, history_data |-> hist,
         data_to_process |-> IF fails THEN None ELSE sel.data_to_process,
         is_realtime |-> ~fails /\ sel.is_realtime,
         is_nighttime |-> ~fails /\ dev.type = DEVICE_TYPE_SOLAR
                          /\ IsNighttime(sel.data_to_process, sel.is_realtime),
         attempted |-> attempted]

---------------------------------------------------------------------------
(* SajDataUpdateCoordinator._async_update_data, suspended at each request. *)

Device(sn, type) == [sn |-> sn, type |-> type]
\* the configured device lists: one solar device, one device of another type,
\* or up to MaxDevices battery devices
MaxDevices == 2
BatterySerials == <<"B1", "B2", "B3", "B4">>
BatteryFleet(n) == [i \in 1..n |-> Device(BatterySerials[i], DEVICE_TYPE_BATTERY)]
DeviceConfigs ==
    {<<Device("S1", DEVICE_TYPE_SOLAR)>>, <<Device("O1", DEVICE_TYPE_OTHER)>>}
    \cup {BatteryFleet(n) : n \in 1..MaxDevices}
Days == {1, 365}
CycleDays == {365}

locals == <<plant_stats, device_info, load_monitoring, realtime_data, history_data>>
LocalsCleared ==
    /\ plant_stats' = None /\ device_info' = None /\ load_monitoring' = LmNone
    /\ realtime_data' = None /\ history_data' = None

\* a fetcher is called: it asks for a token first (_make_api_request line 75,
\* get_history_data line 151, get_load_monitoring_data line 237)
CallFetcher(f, calls, toks) ==
    /\ fetcher' = f
    /\ nCalls' = calls + 1
    /\ IF NeedsTokenRequest(token)
       THEN pc' = "await_token" /\ nTok' = toks + 1 /\ hdrToken' = 0
       ELSE pc' = "await_data" /\ nTok' = toks /\ hdrToken' = token

\* a loop end that returns the mapping even when it is empty
EndCycle_ReturnsEmpty(d) ==
    /\ pc' = "idle" /\ k' = 0 /\ fetcher' = "none" /\ hdrToken' = 0
    /\ LocalsCleared /\ attempted' = {}
    /\ data' = d
    /\ nCalls' = 0 /\ nTok' = 0
    /\ outcome' = "returned"
    /\ coordinator' = [data |-> d, last_update_success |-> TRUE]

\* a loop end that keeps the entries of the mapping published before
EndCycle_KeepsOldEntries(d) ==
    /\ pc' = "idle" /\ k' = 0 /\ fetcher' = "none" /\ hdrToken' = 0
    /\ LocalsCleared /\ attempted' = {}
    /\ data' = d
    /\ nCalls' = 0 /\ nTok' = 0
    /\ IF d = EmptyDict
       THEN /\ outcome' = "update_failed"
            /\ coordinator' = [coordinator EXCEPT !.last_update_success = FALSE]
       ELSE /\ outcome' = "returned"
            /\ coordinator' = [data |-> d @@ coordinator.data,
                               last_update_success |-> TRUE]

\* lines 123-131: the loop is over
EndCycle(d) ==
    /\ pc' = "idle" /\ k' = 0 /\ fetcher' = "none" /\ hdrToken' = 0
    /\ LocalsCleared /\ attempted' = {}
    /\ data' = d
    /\ nCalls' = 0 /\ nTok' = 0
    /\ IF d = EmptyDict
       THEN /\ outcome' = "update_failed"
            /\ coordinator' = [coordinator EXCEPT !.last_update_success = FALSE]
       ELSE /\ outcome' = "returned"
            /\ coordinator' = [data |-> d, last_update_success |-> TRUE]

\* get_device_data returns (lines 335-359, 402-414) and the loop of lines 115-121 goes on
FinishDevice(ps, di, lm, rt, hist) ==
    LET dev == devices[k]
        rec == CallRecord(dev, ps, di, lm, rt, hist)
        d == IF rec.result = "snapshot"
             THEN (dev.sn :> Snapshot(dev.type, ps, di, lm, rt, hist, yday)) @@ data
             ELSE data
    IN  /\ lastCall' = rec
        /\ results' = Append(results, rec.result)
        /\ IF k < Len(devices)
           THEN /\ k' = k + 1
                /\ data' = d
                /\ LocalsCleared /\ attempted' = {"plant_stats"}
                /\ CallFetcher("plant_stats", nCalls, nTok)
                /\ UNCHANGED <<coordinator, outcome>>
           ELSE EndCycle(d)

\* the suspended fetcher returns r to get_device_data
Returns(r) ==
    LET type == devices[k].type
        ps == IF fetcher = "plant_stats" THEN r ELSE plant_stats
        di == IF fetcher = "device_info" THEN r ELSE device_info
        lm == IF fetcher = "load_monitoring" THEN r ELSE load_monitoring
        rt == IF fetcher = "realtime" THEN r ELSE realtime_data
        hist == IF fetcher = "history" THEN r ELSE history_data
        nf == NextFetcher(type, fetcher)
    IN  IF nf # "done"
        THEN /\ plant_stats' = ps /\ device_info' = di /\ load_monitoring' = lm
             /\ realtime_data' = rt /\ history_data' = hist
             /\ CallFetcher(nf, nCalls, nTok) /\ attempted' = attempted \cup {nf}
             /\ UNCHANGED <<k, data, coordinator, outcome, lastCall, results>>
        ELSE FinishDevice(ps, di, lm, rt, hist)

\* the host calls _async_update_data (lines 108-116)
StartCycle ==
    /\ pc = "idle"
    /\ k' = 1 /\ data' = EmptyDict /\ outcome' = "running"
    /\ LocalsCleared /\ attempted' = {"plant_stats"}
    /\ tokenResp' = "none" /\ tokCall' = 0 /\ lastCall' = NoCall /\ results' = <<>>
    /\ CallFetcher("plant_stats", 0, 0)
    /\ published_before' = DOMAIN coordinator.data
    /\ UNCHANGED <<devices, coordinator, token, yday, rc_in, rc_out, reading>>

\* a client that takes any answer of the token endpoint for a token
TokenAccepted_AnyAnswer(o) == o \in {"ok", "invalid"}

\* _get_token lines 53-71 and the `if not token` of the fetchers: only an
\* answer that holds data.access_token gives a token
TokenAccepted(o) == o = "ok"

TokenRespOf(o) == IF o \in {"ok", "invalid"} THEN o ELSE "failed"

\* _get_token lines 49-71: the token endpoint answers, or the request fails
TokenResponse ==
    /\ pc = "await_token"
    /\ \E o \in TokenOutcomes :
          /\ tokenResp' = TokenRespOf(o)
          /\ IF TokenAccepted(o)
             THEN /\ token' = FreshToken(nTok)
                  /\ tokCall' = nCalls
                  /\ pc' = "await_data"
                  /\ hdrToken' = token'
                  /\ UNCHANGED <<k, fetcher, locals, data, coordinator, outcome, nCalls,
                                 nTok, lastCall, results, attempted>>
             ELSE /\ UNCHANGED <<token, tokCall>>
                  /\ Returns(NoneOf(fetcher))
    /\ UNCHANGED <<devices, yday, rc_in, rc_out, published_before, reading>>

\* the data request is answered, or fails
DataResponse ==
    /\ pc = "await_data"
    /\ \E kind \in DataOutcomes(fetcher), payload \in Payloads(fetcher, devices[k].type) :
          Returns(FetcherResult(fetcher, kind, payload))
    /\ UNCHANGED <<devices, token, tokCall, tokenResp, yday, rc_in, rc_out,
                   published_before, reading>>

\* get_realtime_data lines 206-207: a true result that is no mapping (a list)
\* has no .get; the AttributeError leaves get_device_data and is turned into
\* UpdateFailed at __init__.py line 130
RealtimeNotAMapping ==
    /\ pc = "await_data" /\ fetcher = "realtime"
    /\ pc' = "idle" /\ k' = 0 /\ fetcher' = "none" /\ hdrToken' = 0
    /\ LocalsCleared /\ attempted' = {}
    /\ outcome' = "exception"
    /\ coordinator' = [coordinator EXCEPT !.last_update_success = FALSE]
    /\ lastCall' = [NoCall EXCEPT !.sn = devices[k].sn, !.type = devices[k].type,
                                  !.result = "raised"]
    /\ nCalls' = 0 /\ nTok' = 0
    /\ UNCHANGED <<devices, data, token, tokCall, tokenResp, results, yday, rc_in,
                   rc_out, published_before, reading>>

\* a timeout handler that returns what the loop has collected so far
OuterTimeout_Publishes ==
    /\ pc \in {"await_token", "await_data"}
    /\ pc' = "idle" /\ k' = 0 /\ fetcher' = "none" /\ hdrToken' = 0
    /\ LocalsCleared /\ attempted' = {}
    /\ outcome' = "timeout"
    /\ coordinator' = IF data = EmptyDict
                      THEN [coordinator EXCEPT !.last_update_success = FALSE]
                      ELSE [data |-> data, last_update_success |-> TRUE]
    /\ nCalls' = 0 /\ nTok' = 0 /\ tokCall' = 0 /\ tokenResp' = "none"
    /\ lastCall' = NoCall /\ results' = <<>>
    /\ UNCHANGED <<devices, data, token, yday, rc_in, rc_out, published_before,
                   reading>>

\* async_timeout.timeout(30) of line 111 expires while a request is awaited:
\* asyncio.TimeoutError, turned into UpdateFailed at line 129
OuterTimeout ==
    /\ pc \in {"await_token", "await_data"}
    /\ pc' = "idle" /\ k' = 0 /\ fetcher' = "none" /\ hdrToken' = 0
    /\ LocalsCleared /\ attempted' = {}
    /\ outcome' = "timeout"
    /\ coordinator' = [coordinator EXCEPT !.last_update_success = FALSE]
    /\ nCalls' = 0 /\ nTok' = 0 /\ tokCall' = 0 /\ tokenResp' = "none"
    /\ lastCall' = NoCall /\ results' = <<>>
    /\ UNCHANGED <<devices, data, token, yday, rc_in, rc_out, published_before,
                   reading>>

\* the calendar day changes
Tick ==
    /\ \E day \in Days \ {yday} : yday' = day
    /\ UNCHANGED <<devices, pc, k, fetcher, locals, data, coordinator, outcome, token,
                   hdrToken, tokCall, nCalls, nTok, tokenResp, lastCall, results, attempted,
                   rc_in, rc_out, published_before, reading>>

---------------------------------------------------------------------------
(* _process_device_data called directly on arguments drawn from bounded    *)
(* sets.                                                                   *)

\* every mapping with keys among `keys`, key x taking a value of vals[x]
RECURSIVE Dicts(_, _)
Dicts(keys, vals) ==
    IF keys = {} THEN {EmptyDict}
    ELSE LET x == CHOOSE x \in keys : TRUE
             rest == Dicts(keys \ {x}, vals)
         IN  rest \cup {(x :> v) @@ r : v \in vals[x], r \in rest}

BatteryRealtimeInputs ==
    Dicts({"sysGridPowerWatt", "gridDirection", "batPower", "batteryDirection",
           "batEnergyPercent"},
          ("sysGridPowerWatt" :> {Num(-500), Num(0), Num(500), Text})
          @@ ("gridDirection" :> {Num(1), Num(-1), Num(0)})
          @@ ("batPower" :> {Num(-200), Num(0), Str(200), Text})
          @@ ("batteryDirection" :> {Num(-1), Num(0), Num(1), Text})
          @@ ("batEnergyPercent" :> {Num(77)}))

SolarGridInputs ==
    Dicts({"isOnline", "totalGridPowerWatt"},
          ("isOnline" :> {Str(1), Str(0)})
          @@ ("totalGridPowerWatt" :> {Str(-300), Num(0), Str(200), Text}))

LmGridInputs ==
    {LmNone}
    \cup {LmSome(latest, EmptyDict) :
            latest \in Dicts({"buyPower", "sellPower"},
                             ("buyPower" :> {Num(0), Num(400), Text})
                             @@ ("sellPower" :> {Num(0), Num(100), Str(400)}))}

\* single battery realtime samples: the reference sample, a non-finite
\* reading, a sample with today's PV energy
ScenarioA ==
    ("sysGridPowerWatt" :> Num(-500)) @@ ("gridDirection" :> Num(1))
    @@ ("batPower" :> Num(200)) @@ ("batteryDirection" :> Num(-1))
    @@ ("batEnergyPercent" :> Num(77))

BatteryScenarioInputs ==
    {ScenarioA,
     "sysGridPowerWatt" :> Inf,
     ("sysGridPowerWatt" :> Str(500)) @@ ("gridDirection" :> Inf),
     ("todayPvEnergy" :> Num(10)) @@ ("gridDirection" :> Num(1))}

\* solar samples with PV channel readings and an explicit total
SolarPvInputs ==
    Dicts({"pv1power", "pv2power", "pv16power", "totalPVPower"},
          ("pv1power" :> {Str(100), Num(0), Text, Str(-200)})
          @@ ("pv2power" :> {Str(50)})
          @@ ("pv16power" :> {Str(30)})
          @@ ("totalPVPower" :> {Str(0), Str(1200), Text, Str(-5)}))

\* solar samples with grid phase readings
SolarPhaseInputs ==
    Dicts({"rGridPowerWatt", "rGridVolt", "sGridVolt"},
          ("rGridPowerWatt" :> {Str(100)})
          @@ ("rGridVolt" :> {Str(230), Text})
          @@ ("sGridVolt" :> {Str(231)}))

\* load monitoring results with same-day totals
LmEnergyInputs ==
    {LmNone}
    \cup {LmSome(latest, total) :
            latest \in {EmptyDict, "loadPower" :> Num(300)},
            total \in Dicts({"pvEnergy", "sellEnergy"},
                            ("pvEnergy" :> {Num(0), Num(5)})
                            @@ ("sellEnergy" :> {Num(2)}))}

\* what a solar device is reconciled from around sunset
SolarEveningInputs == {EmptyDict, SolarOffline, SolarOnline, HistorySample}

\* solar history samples with their own day and lifetime energy figures, and
\* plant statistics with a lifetime export figure
SolarEnergyInputs ==
    Dicts({"todayPvEnergy", "todaySellEnergy", "totalSellEnergy"},
          ("todayPvEnergy" :> {Str(7)})
          @@ ("todaySellEnergy" :> {Str(3)})
          @@ ("totalSellEnergy" :> {Str(600)}))
PlantExportSample == ("totalSellEnergy" :> Str(800)) @@ ("totalPvEnergy" :> Str(9000))

\* solar history samples with an aggregate load reading, and load monitoring
\* results with and without a latest load reading
SolarLoadInputs ==
    Dicts({"totalLoadPowerWatt", "totalGridPowerWatt"},
          ("totalLoadPowerWatt" :> {Str(450), Text})
          @@ ("totalGridPowerWatt" :> {Str(200)}))
LmLoadInputs ==
    {LmNone, LmSome(EmptyDict, EmptyDict), LmSome("loadPower" :> Num(300), EmptyDict),
     LmSome(("buyPower" :> Num(400)) @@ ("sellPower" :> Num(100)), EmptyDict)}

ReconcileInput(device_type, d, ps, lm, is_realtime) ==
    [device_type |-> device_type, data |-> d, plant_stats |-> ps,
     load_monitoring |-> lm, is_realtime |-> is_realtime]

ReconcileInputs ==
    {ReconcileInput(DEVICE_TYPE_BATTERY, Some(d), ps, LmNone, TRUE) :
        d \in BatteryRealtimeInputs, ps \in {None, Some(PlantSample)}}
    \cup {ReconcileInput(DEVICE_TYPE_SOLAR, Some(d), None, lm, rt) :
            d \in SolarGridInputs, lm \in LmGridInputs, rt \in BOOLEAN}
    \cup {ReconcileInput(DEVICE_TYPE_BATTERY, Some(d), ps, LmNone, TRUE) :
            d \in BatteryScenarioInputs, ps \in {None, Some(PlantSample)}}
    \cup {ReconcileInput(DEVICE_TYPE_SOLAR, Some(d), None, LmNone, FALSE) :
            d \in SolarPvInputs \cup SolarPhaseInputs}
    \cup {ReconcileInput(DEVICE_TYPE_SOLAR, Some(d), ps, lm, rt) :
            d \in SolarEveningInputs, ps \in {None, Some(PlantSample)},
            lm \in LmEnergyInputs, rt \in BOOLEAN}
    \cup {ReconcileInput(DEVICE_TYPE_OTHER, Some(HistorySample), ps, lm, FALSE) :
            ps \in {None, Some(PlantSample)}, lm \in {LmNone, LmSample}}
    \cup {ReconcileInput(DEVICE_TYPE_SOLAR, Some(d), ps, lm, FALSE) :
            d \in SolarEnergyInputs, ps \in {None, Some(PlantExportSample)},
            lm \in LmEnergyInputs}
    \cup {ReconcileInput(DEVICE_TYPE_SOLAR, Some(d), None, lm, FALSE) :
            d \in SolarLoadInputs, lm \in LmLoadInputs}

NoReconcile == ReconcileInput("", None, None, LmNone, FALSE)
NotCalled == [called |-> FALSE, day |-> 0, processed |-> EmptyDict]

\* _process_device_data(data, plant_stats, device_type, is_realtime, load_monitoring)
Reconcile ==
    /\ rc_in # NoReconcile
    /\ rc_out' = [called |-> TRUE, day |-> yday,
                  processed |-> process_device_data(rc_in.data, rc_in.plant_stats,
                                                    rc_in.device_type, rc_in.is_realtime,
                                                    rc_in.load_monitoring, yday)]
    /\ UNCHANGED <<devices, pc, k, fetcher, locals, data, coordinator, outcome, token,
                   hdrToken, tokCall, nCalls, nTok, tokenResp, lastCall, results, attempted,
                   yday, rc_in, published_before, reading>>

\* what an entity property returns: None or a number
NoValue == [some |-> FALSE, v |-> 0]
Value(v) == [some |-> TRUE, v |-> v]
NoReading ==
    [sensor |-> "none", sn |-> "", value |-> NoValue, status |-> "",
     is_on |-> FALSE, is_nighttime |-> FALSE]

Init ==
    /\ devices \in DeviceConfigs
    /\ pc = "idle" /\ k = 0 /\ fetcher = "none"
    /\ plant_stats = None /\ device_info = None /\ load_monitoring = LmNone
    /\ realtime_data = None /\ history_data = None
    /\ data = EmptyDict
    /\ coordinator = [data |-> EmptyDict, last_update_success |-> TRUE]
    /\ outcome = "none"
    /\ token = 0 /\ hdrToken = 0 /\ tokCall = 0 /\ nCalls = 0 /\ nTok = 0
    /\ tokenResp = "none"
    /\ lastCall = NoCall /\ results = <<>> /\ attempted = {}
    /\ yday \in CycleDays
    /\ rc_in = NoReconcile /\ rc_out = NotCalled
    /\ published_before = {} /\ reading = NoReading

Next ==
    \/ StartCycle
    \/ TokenResponse
    \/ DataResponse
    \/ RealtimeNotAMapping
    \/ OuterTimeout

\* the polling cycles of one configuration entry; the calendar day is the same
\* throughout
Spec == Init /\ [][Next]_vars

InitReconcile ==
    /\ devices = BatteryFleet(1)
    /\ pc = "idle" /\ k = 0 /\ fetcher = "none"
    /\ plant_stats = None /\ device_info = None /\ load_monitoring = LmNone
    /\ realtime_data = None /\ history_data = None
    /\ data = EmptyDict
    /\ coordinator = [data |-> EmptyDict, last_update_success |-> TRUE]
    /\ outcome = "none"
    /\ token = 0 /\ hdrToken = 0 /\ tokCall = 0 /\ nCalls = 0 /\ nTok = 0
    /\ tokenResp = "none"
    /\ lastCall = NoCall /\ results = <<>> /\ attempted = {}
    /\ yday \in Days
    /\ rc_in \in ReconcileInputs /\ rc_out = NotCalled
    /\ published_before = {} /\ reading = NoReading

NextReconcile ==
    \/ Reconcile
    \/ Tick

\* _process_device_data on its own, on any day of the year
SpecReconcile == InitReconcile /\ [][NextReconcile]_vars

---------------------------------------------------------------------------
(* The entities of sensor.py and binary_sensor.py, read by the host from   *)
(* the published mapping. dd is the device's snapshot in coordinator.data. *)

\* SajBaseSensor.available
available(sn) == coordinator.last_update_success /\ sn \in DOMAIN coordinator.data

\* device_data.get("processed_data") or {}
_get_processed_data(dd) == dd.processed_data
\* device_data.get("history_data") or {}
_get_history_data(dd) == IF NonEmpty(dd.history_data) THEN dd.history_data.d ELSE EmptyDict
\* device_data.get("realtime_data") if it is a mapping, else {}
_get_realtime_data(dd) == IF dd.realtime_data.some THEN dd.realtime_data.d ELSE EmptyDict

\* SajGridPowerSensor.native_value: the value it returns and the processed
\* record it leaves behind. The write of line 673 goes to the published record
\* unless that is empty (`or {}` then hands out a new mapping).
native_value(dd) ==
    LET processed_data == _get_processed_data(dd)
        hist == _get_history_data(dd)
        has_abs == "grid_power_abs" \in DOMAIN processed_data
    IN  IF dd.device_type = DEVICE_TYPE_BATTERY /\ has_abs
        THEN [value |-> Value(processed_data["grid_power_abs"]),
              processed_data |-> processed_data]
        ELSE IF dd.device_type = DEVICE_TYPE_SOLAR /\ has_abs
        THEN [value |->
                 Value(IF "grid_status_calculated" \in DOMAIN processed_data
                          /\ processed_data["grid_status_calculated"] = "exporting"
                       THEN -processed_data["grid_power_abs"]
                       ELSE processed_data["grid_power_abs"]),
              processed_data |-> processed_data]
        ELSE IF /\ "totalGridPowerWatt" \in DOMAIN hist
                /\ FloatOk(hist["totalGridPowerWatt"])
                /\ FloatOf(hist["totalGridPowerWatt"]) # 0
        THEN LET power == FloatOf(hist["totalGridPowerWatt"])
             IN  [value |-> Value(power),
                  processed_data |->
                     IF processed_data = EmptyDict THEN processed_data
                     ELSE ("grid_status_calculated" :>
                              (IF power > 0 THEN "importing" ELSE "exporting"))
                          @@ processed_data]
        ELSE [value |-> NoValue, processed_data |-> processed_data]

\* SajGridPowerSensor.extra_state_attributes: the "status" attribute, "" if none
extra_state_attributes(dd) ==
    IF "grid_status_calculated" \in DOMAIN _get_processed_data(dd)
    THEN _get_processed_data(dd)["grid_status_calculated"] ELSE ""

\* realtime_data and realtime_data.get("isOnline") == "1"
ShowsOnline(dd) ==
    LET rt == _get_realtime_data(dd)
    IN  "isOnline" \in DOMAIN rt /\ rt["isOnline"] = Str(1)

\* a heuristic without the 5 W threshold: night only when there is no history
_is_nighttime_NoThreshold(dd) ==
    /\ dd.load_monitoring.some
    /\ ~NonEmpty(dd.history_data)
    /\ ~ShowsOnline(dd)

\* SajDeviceOnlineStatusBinarySensor._is_nighttime
_is_nighttime(dd) ==
    LET has_history == NonEmpty(dd.history_data)
        has_load_monitoring == dd.load_monitoring.some
        processed_data == _get_processed_data(dd)
        pv_power == IF "total_pv_power_calculated" \in DOMAIN processed_data
                    THEN processed_data["total_pv_power_calculated"] ELSE 0
    IN  /\ has_load_monitoring
        /\ ~has_history \/ pv_power < 5
        /\ ~ShowsOnline(dd)

\* SajDeviceOnlineStatusBinarySensor.is_on
is_on(dd) ==
    IF ShowsOnline(dd) THEN TRUE
    ELSE IF /\ dd.device_type = DEVICE_TYPE_BATTERY
            /\ _get_realtime_data(dd) # EmptyDict
            /\ "battery_level" \in DOMAIN _get_processed_data(dd)
    THEN TRUE
    ELSE FALSE

notRead == <<devices, pc, k, fetcher, locals, data, outcome, token, hdrToken, tokCall,
             nCalls, nTok, tokenResp, lastCall, results, attempted, yday, rc_in, rc_out,
             published_before>>

\* the host reads the state of a device's grid power sensor
ReadGridPower ==
    /\ pc = "idle"
    /\ \E i \in 1..Len(devices) :
          LET sn == devices[i].sn
          IN  /\ available(sn)
              /\ LET r == native_value(coordinator.data[sn])
                 IN  /\ coordinator' =
                           [coordinator EXCEPT !.data[sn].processed_data = r.processed_data]
                     /\ reading' = [NoReading EXCEPT !.sensor = "grid_power", !.sn = sn,
                                                     !.value = r.value]
    /\ UNCHANGED notRead

\* the host reads the attributes of a device's grid power sensor
ReadGridPowerAttributes ==
    /\ pc = "idle"
    /\ \E i \in 1..Len(devices) :
          LET sn == devices[i].sn
          IN  /\ available(sn)
              /\ reading' = [NoReading EXCEPT
                                !.sensor = "grid_power_attributes", !.sn = sn,
                                !.status = extra_state_attributes(coordinator.data[sn])]
    /\ UNCHANGED <<notRead, coordinator>>

\* the host reads a device's connection status and its nighttime attribute
ReadConnectionStatus ==
    /\ pc = "idle"
    /\ \E i \in 1..Len(devices) :
          LET sn == devices[i].sn
          IN  /\ available(sn)
              /\ reading' = [NoReading EXCEPT
                                !.sensor = "connection_status", !.sn = sn,
                                !.is_on = is_on(coordinator.data[sn]),
                                !.is_nighttime = _is_nighttime(coordinator.data[sn])]
    /\ UNCHANGED <<notRead, coordinator>>

\* what the endpoints may have answered in the cycle that built a published
\* snapshot
SolarOnlineNoGrid == ("isOnline" :> Str(1)) @@ ("totalPVPower" :> Str(1200))
HistoryDusk == ("totalPVPower" :> Str(3)) @@ ("totalGridPowerWatt" :> Str(-40))
LmLoadOnly == LmSome("loadPower" :> Num(300), "pvEnergy" :> Num(0))

FetchResults(device_type) ==
    IF device_type = DEVICE_TYPE_BATTERY
    THEN {[rt |-> Some(rt), hist |-> None, lm |-> LmNone] :
             rt \in {BatterySample, "isOnline" :> Str(0), "batPower" :> Text}}
    ELSE IF device_type = DEVICE_TYPE_SOLAR
    THEN {[rt |-> rt, hist |-> hist, lm |-> lm] :
             rt \in {None, Some(SolarOffline), Some(SolarOnline), Some(SolarOnlineNoGrid)},
             hist \in {None, Some(EmptyDict), Some(HistorySample), Some(HistoryDusk)},
             lm \in {LmNone, LmSample, LmLoadOnly}}
    ELSE {[rt |-> None, hist |-> Some(hist), lm |-> lm] :
             hist \in {HistorySample, HistoryDusk}, lm \in {LmNone, LmSample}}

\* the snapshots get_device_data can return for a device
PublishedSnapshots(device_type, day) ==
    {Snapshot(device_type, ps, di, r.lm, r.rt, r.hist, day) :
        ps \in {None, Some(PlantSample)}, di \in {None, Some(InfoSample)},
        r \in {x \in FetchResults(device_type) :
                  ~DeviceFails(device_type, x.rt, x.hist, x.lm)}}

\* a cycle has just published the snapshot of the one configured device
InitExposure ==
    /\ devices \in {<<Device("S1", DEVICE_TYPE_SOLAR)>>, <<Device("O1", DEVICE_TYPE_OTHER)>>,
                    BatteryFleet(1)}
    /\ pc = "idle" /\ k = 0 /\ fetcher = "none"
    /\ plant_stats = None /\ device_info = None /\ load_monitoring = LmNone
    /\ realtime_data = None /\ history_data = None
    /\ yday \in CycleDays
    /\ data \in {devices[1].sn :> s : s \in PublishedSnapshots(devices[1].type, yday)}
    /\ coordinator = [data |-> data, last_update_success |-> TRUE]
    /\ outcome = "returned"
    /\ token = 0 /\ hdrToken = 0 /\ tokCall = 0 /\ nCalls = 0 /\ nTok = 0
    /\ tokenResp = "none"
    /\ lastCall = NoCall /\ results = <<"snapshot">> /\ attempted = {}
    /\ rc_in = NoReconcile /\ rc_out = NotCalled
    /\ published_before = {} /\ reading = NoReading

NextExposure ==
    \/ ReadGridPower
    \/ ReadGridPowerAttributes
    \/ ReadConnectionStatus

\* the host reading entity states between two polling cycles
SpecExposure == InitExposure /\ [][NextExposure]_vars

---------------------------------------------------------------------------
(* Properties of get_device_data and of the polling cycle.                 *)

\* C1: whenever get_device_data returns a snapshot for a solar device, the
\* sample handed to reconciliation is the realtime sample iff it is present and
\* its isOnline is "1" (mode REALTIME), otherwise the history sample iff it is
\* non-empty (mode HISTORY), otherwise the empty object (mode NIGHTTIME).
C1_SolarSourceOrder ==
    (lastCall.result = "snapshot" /\ lastCall.type = DEVICE_TYPE_SOLAR) =>
        LET rt == lastCall.realtime_data
            hist == lastCall.history_data
            online == rt.some /\ "isOnline" \in DOMAIN rt.d /\ rt.d["isOnline"] = Str(1)
            mode == IF lastCall.is_nighttime THEN "NIGHTTIME"
                    ELSE IF lastCall.is_realtime THEN "REALTIME" ELSE "HISTORY"
        IN  IF online
            THEN lastCall.data_to_process = rt /\ mode = "REALTIME"
            ELSE IF hist.some /\ hist.d # EmptyDict
            THEN lastCall.data_to_process = hist /\ mode = "HISTORY"
            ELSE lastCall.data_to_process = Some(EmptyDict) /\ mode = "NIGHTTIME"

\* a solar snapshot whose realtime sample is present but offline, so that the
\* non-empty history sample was handed to reconciliation
C1_Witness ==
    /\ lastCall.result = "snapshot" /\ lastCall.type = DEVICE_TYPE_SOLAR
    /\ lastCall.realtime_data = Some(SolarOffline)
    /\ lastCall.history_data = Some(HistorySample)
    /\ lastCall.data_to_process = lastCall.history_data
    /\ ~lastCall.is_realtime /\ ~lastCall.is_nighttime

\* C2: a solar device whose realtime sample is not online, whose history is
\* absent or empty and whose load monitoring fetch returned nothing gets no
\* snapshot, also when a realtime sample is present but offline.
C2_NighttimeWithoutLoadMonitoringFails ==
    (/\ lastCall.type = DEVICE_TYPE_SOLAR
     /\ lastCall.result \in {"snapshot", "none"}
     /\ ~(/\ lastCall.realtime_data.some
          /\ "isOnline" \in DOMAIN lastCall.realtime_data.d
          /\ lastCall.realtime_data.d["isOnline"] = Str(1))
     /\ ~NonEmpty(lastCall.history_data)
     /\ ~lastCall.load_monitoring.some)
    => lastCall.result = "none"

\* C3: a battery device gets a snapshot iff its realtime fetch returned a
\* non-empty sample, and then the processed record is the battery
\* reconciliation of that realtime sample alone; history and load monitoring
\* are never fetched for it.
C3_BatteryNeedsRealtime ==
    (lastCall.type = DEVICE_TYPE_BATTERY /\ lastCall.result \in {"snapshot", "none"}) =>
        /\ lastCall.result = "snapshot" <=> NonEmpty(lastCall.realtime_data)
        /\ lastCall.history_data = None /\ lastCall.load_monitoring = LmNone
        /\ lastCall.result = "snapshot" =>
             /\ lastCall.sn \in DOMAIN data
             /\ data[lastCall.sn].processed_data =
                    process_battery_realtime_data(lastCall.realtime_data.d, yday)
             /\ data[lastCall.sn].history_data = None
             /\ data[lastCall.sn].load_monitoring = LmNone

\* a battery call that failed on an empty realtime sample after a battery
\* snapshot was built earlier in the same cycle
C3_Witness ==
    /\ lastCall.type = DEVICE_TYPE_BATTERY /\ lastCall.result = "none"
    /\ lastCall.realtime_data = Some(EmptyDict)
    /\ "B1" \in DOMAIN data
    /\ data["B1"].processed_data = process_battery_realtime_data(BatterySample, yday)

\* C4: a device that is neither solar nor battery gets a snapshot iff its
\* history fetch returned a non-empty sample: None and {} both fail.
C4_OtherNeedsHistory ==
    (lastCall.type = DEVICE_TYPE_OTHER /\ lastCall.result \in {"snapshot", "none"}) =>
        /\ lastCall.result = "snapshot" <=>
              (lastCall.history_data.some /\ lastCall.history_data.d # EmptyDict)
        /\ lastCall.history_data \in {None, Some(EmptyDict)} => lastCall.result = "none"

\* a device of another type that failed on an available but empty history
\* result
C4_Witness ==
    /\ lastCall.type = DEVICE_TYPE_OTHER /\ lastCall.result = "none"
    /\ lastCall.history_data = Some(EmptyDict)

\* C5: a cycle whose every get_device_data call failed ends with UpdateFailed;
\* a cycle that went through all devices with at least one success returns the
\* mapping of exactly the serials that succeeded to this cycle's snapshots; no
\* cycle returns an empty mapping.
C5_CycleOutcome ==
    /\ outcome = "returned" => coordinator.data # EmptyDict
    /\ (pc = "idle" /\ results # <<>> /\ Len(results) = Len(devices)) =>
         LET succeeded == {devices[i].sn :
                             i \in {j \in 1..Len(devices) : results[j] = "snapshot"}}
         IN  IF succeeded = {}
             THEN outcome = "update_failed" /\ ~coordinator.last_update_success
             ELSE /\ outcome = "returned" /\ coordinator.last_update_success
                  /\ DOMAIN coordinator.data = succeeded
                  /\ coordinator.data = data
                  /\ lastCall.result = "snapshot" =>
                       coordinator.data[lastCall.sn] =
                           Snapshot(lastCall.type, lastCall.plant_stats,
                                    lastCall.device_info, lastCall.load_monitoring,
                                    lastCall.realtime_data, lastCall.history_data, yday)

\* a finished cycle in which the first device failed and the second succeeded
C5_Witness ==
    /\ pc = "idle" /\ outcome = "returned"
    /\ results = <<"none", "snapshot">>
    /\ DOMAIN coordinator.data = {"B2"}

\* C6 as stated: after the outer timeout, the snapshots of the devices that had
\* completed are published as the cycle's result.
C6_PartialResultsPublished ==
    outcome = "timeout" =>
        /\ \A sn \in DOMAIN data :
              sn \in DOMAIN coordinator.data /\ coordinator.data[sn] = data[sn]
        /\ data # EmptyDict => coordinator.last_update_success

\* C6: when the outer timeout expires during a cycle, the cycle ends at once
\* (no request is left in flight, no further device is fetched) with
\* UpdateFailed: the published mapping stays what it was and the update is
\* marked failed, whatever the devices completed so far had produced.
C6_TimeoutDiscardsPartialResults ==
    [][(outcome = "running" /\ outcome' = "timeout") =>
          /\ pc' = "idle" /\ k' = 0 /\ fetcher' = "none"
          /\ coordinator'.data = coordinator.data
          /\ ~coordinator'.last_update_success]_vars

\* a timeout during the second device, after the first had given a snapshot
\* that is not in the published mapping
C6_Witness ==
    /\ outcome = "timeout" /\ "B1" \in DOMAIN data
    /\ "B1" \notin DOMAIN coordinator.data
    /\ ~coordinator.last_update_success

\* C7 as stated: once the token endpoint has answered without
\* data.access_token, no token request and no data request is in flight in
\* that cycle any more.
C7_NoFetcherAfterInvalidToken ==
    tokenResp = "invalid" => pc \notin {"await_token", "await_data"}

\* C7: when the token endpoint answers without data.access_token, the fetcher
\* that asked returns None without sending its data request, and
\* get_device_data goes on: the next fetcher (or the next device's first
\* fetcher) is called and sends a token request of its own.
C7_InvalidTokenFailsOnlyItsFetcher ==
    [][(pc = "await_token" /\ tokenResp' = "invalid") =>
          LET nf == NextFetcher(devices[k].type, fetcher)
          IN  /\ pc' # "await_data" /\ hdrToken' = 0 /\ token' = token
              /\ nf # "done" =>
                   /\ fetcher' = nf /\ pc' = "await_token" /\ k' = k
                   /\ nCalls' = nCalls + 1 /\ nTok' = nTok + 1
                   /\ CASE fetcher = "plant_stats" -> plant_stats' = None
                        [] fetcher = "device_info" -> device_info' = None
                        [] fetcher = "load_monitoring" -> load_monitoring' = LmNone
                        [] fetcher = "realtime" -> realtime_data' = None
                        [] OTHER -> FALSE
              /\ nf = "done" =>
                   /\ lastCall'.sn = devices[k].sn
                   /\ CASE fetcher = "realtime" -> lastCall'.realtime_data = None
                        [] fetcher = "history" -> lastCall'.history_data = None
                        [] OTHER -> FALSE
                   /\ IF k < Len(devices)
                      THEN /\ k' = k + 1 /\ fetcher' = "plant_stats"
                           /\ pc' = "await_token"
                           /\ nCalls' = nCalls + 1 /\ nTok' = nTok + 1
                      ELSE pc' = "idle"]_vars

\* the device-info fetcher awaits its own token after the plant-statistics
\* fetcher was refused one
C7_Witness ==
    /\ tokenResp = "invalid" /\ pc = "await_token"
    /\ fetcher = "device_info" /\ plant_stats = None
    /\ nCalls = 2 /\ nTok = 2

\* C8: every data request carries the token returned by the token request that
\* the same fetcher call has just made; in a cycle there are as many token
\* requests as fetcher calls, and a data request is in flight only after its
\* own token request succeeded.
C8_FreshTokenPerFetcherCall ==
    /\ nTok = nCalls
    /\ pc = "await_data" =>
         /\ tokenResp = "ok"
         /\ tokCall = nCalls
         /\ hdrToken = FreshToken(nTok) /\ hdrToken = token /\ hdrToken # 0

\* the third fetcher call of a cycle sends its data request with the third token
C8_Witness ==
    /\ pc = "await_data" /\ nCalls = 3 /\ nTok = 3 /\ hdrToken = FreshToken(3)

---------------------------------------------------------------------------
(* Properties of _process_device_data.                                     *)

\* C9: in every processed record that has grid_status_calculated, there is a
\* net grid power whose absolute value is grid_power_abs and whose sign gives
\* the status: importing iff > 0, exporting iff < 0, idle iff = 0.
C9_GridSignInvariant ==
    (rc_out.called /\ "grid_status_calculated" \in DOMAIN rc_out.processed) =>
        /\ "grid_power_abs" \in DOMAIN rc_out.processed
        /\ \E net \in {rc_out.processed["grid_power_abs"],
                       -rc_out.processed["grid_power_abs"]} :
              rc_out.processed["grid_status_calculated"] =
                  IF net > 0 THEN "importing"
                  ELSE IF net < 0 THEN "exporting" ELSE "idle"

\* C10: the processed record of a non-empty battery realtime sample whose
\* batteryDirection is 0 or missing has battery_status_calculated "Standby".
C10_NeutralDirectionIsStandby ==
    (/\ rc_out.called
     /\ rc_in.device_type = DEVICE_TYPE_BATTERY /\ rc_in.is_realtime
     /\ rc_in.data.d # EmptyDict
     /\ \/ "batteryDirection" \notin DOMAIN rc_in.data.d
        \/ rc_in.data.d["batteryDirection"] = Num(0))
    => /\ "battery_status_calculated" \in DOMAIN rc_out.processed
       /\ rc_out.processed["battery_status_calculated"] = "Standby"

\* C11: the battery reference sample (gridDirection 1, sysGridPowerWatt -500,
\* batteryDirection -1, batPower 200, batEnergyPercent 77) is reconciled to
\* exporting / 500 / Charging / 200 / 77; in general batteryDirection -1 is
\* reported as "Charging" and gridDirection 1 as "exporting", with absolute
\* magnitudes.
C11_ScenarioA ==
    (rc_out.called /\ rc_in.device_type = DEVICE_TYPE_BATTERY /\ rc_in.is_realtime) =>
        LET d == rc_in.data.d
            p == rc_out.processed
        IN  /\ d = ScenarioA =>
                 /\ {"grid_status_calculated", "grid_power_abs", "battery_level",
                     "battery_status_calculated", "battery_power_abs"} \subseteq DOMAIN p
                 /\ p["grid_status_calculated"] = "exporting"
                 /\ p["grid_power_abs"] = 500
                 /\ p["battery_status_calculated"] = "Charging"
                 /\ p["battery_power_abs"] = 200
                 /\ p["battery_level"] = 77
            /\ ("batteryDirection" \in DOMAIN d /\ d["batteryDirection"] = Num(-1)
                /\ "battery_status_calculated" \in DOMAIN p) =>
                 /\ p["battery_status_calculated"] = "Charging"
                 /\ p["battery_power_abs"] = Abs(FloatOf(Get(d, "batPower")))
            /\ ("gridDirection" \in DOMAIN d /\ d["gridDirection"] = Num(1)
                /\ "grid_status_calculated" \in DOMAIN p) =>
                 /\ p["grid_status_calculated"] = "exporting"
                 /\ p["grid_power_abs"] = Abs(FloatOf(Get(d, "sysGridPowerWatt")))

\* C12: a solar record reconciled in NIGHTTIME mode contains
\* total_pv_power_calculated, pv{i}_power for every PV input i, and the power,
\* voltage, current and frequency of every phase, all equal to 0.
C12_NighttimeZeroFill ==
    (/\ rc_out.called /\ rc_in.device_type = DEVICE_TYPE_SOLAR
     /\ IsNighttime(rc_in.data, rc_in.is_realtime)) =>
        \A key \in {"total_pv_power_calculated"}
                   \cup {PvPowerOut[i] : i \in 1..PV_INPUTS}
                   \cup {PhasePowerOut[i] : i \in 1..3}
                   \cup {PhaseVoltageOut[i] : i \in 1..3}
                   \cup {PhaseCurrentOut[i] : i \in 1..3}
                   \cup {PhaseFrequencyOut[i] : i \in 1..3} :
            key \in DOMAIN rc_out.processed /\ rc_out.processed[key] = 0

\* C13: a solar record reconciled in NIGHTTIME mode has today_pv_energy and
\* today_grid_export_energy, both 0, whatever the load monitoring result is.
C13_NighttimeTodayFiguresZero ==
    (/\ rc_out.called /\ rc_in.device_type = DEVICE_TYPE_SOLAR
     /\ IsNighttime(rc_in.data, rc_in.is_realtime)) =>
        /\ "today_pv_energy" \in DOMAIN rc_out.processed
        /\ rc_out.processed["today_pv_energy"] = 0
        /\ "today_grid_export_energy" \in DOMAIN rc_out.processed
        /\ rc_out.processed["today_grid_export_energy"] = 0

\* C14: outside NIGHTTIME mode a solar record's total_pv_power_calculated is
\* the explicit totalPVPower when that is > 0; when the explicit total is 0,
\* missing or non-numeric it is the sum of the pv{i}power readings, i in 1..16,
\* or 0 when that sum is not positive.
C14_TotalPvPower ==
    (/\ rc_out.called /\ rc_in.device_type = DEVICE_TYPE_SOLAR
     /\ ~IsNighttime(rc_in.data, rc_in.is_realtime)) =>
        LET d == rc_in.data.d
            p == rc_out.processed
            numeric == "totalPVPower" \in DOMAIN d /\ FloatOk(d["totalPVPower"])
            sum == SumValues([i \in 1..PV_INPUTS |->
                                IF PvPowerKey[i] \in DOMAIN d /\ FloatOk(d[PvPowerKey[i]])
                                THEN FloatOf(d[PvPowerKey[i]]) ELSE 0])
        IN  /\ "total_pv_power_calculated" \in DOMAIN p
            /\ (numeric /\ FloatOf(d["totalPVPower"]) > 0) =>
                  p["total_pv_power_calculated"] = FloatOf(d["totalPVPower"])
            /\ (~numeric \/ FloatOf(d["totalPVPower"]) = 0) =>
                  p["total_pv_power_calculated"] = IF sum > 0 THEN sum ELSE 0

\* pv1power 100, pv2power 50 and an explicit total of 0 give 150
C14_Witness ==
    /\ rc_out.called /\ rc_in.device_type = DEVICE_TYPE_SOLAR /\ ~rc_in.is_realtime
    /\ rc_in.data.d = ("pv1power" :> Str(100)) @@ ("pv2power" :> Str(50))
                      @@ ("totalPVPower" :> Str(0))
    /\ rc_out.processed["total_pv_power_calculated"] = 150

\* C15: for every device type, a record that has estimated_annual_production
\* has it equal to the plant statistics' yearPvEnergy / day-of-year * 365, and
\* estimated_annual_savings equal to that times 0.15.
C15_AnnualEstimates ==
    (rc_out.called /\ "estimated_annual_production" \in DOMAIN rc_out.processed) =>
        /\ rc_in.plant_stats.some
        /\ "yearPvEnergy" \in DOMAIN rc_in.plant_stats.d
        /\ FloatOk(rc_in.plant_stats.d["yearPvEnergy"])
        /\ rc_out.day > 0
        /\ rc_out.processed["estimated_annual_production"] =
              Rat(FloatOf(rc_in.plant_stats.d["yearPvEnergy"]) * 365, rc_out.day)
        /\ "estimated_annual_savings" \in DOMAIN rc_out.processed
        /\ rc_out.processed["estimated_annual_savings"] =
              Rat(FloatOf(rc_in.plant_stats.d["yearPvEnergy"]) * 365 * 15,
                  rc_out.day * 100)

\* C16: a vendor field that does not convert costs its own output field only:
\* every field of the sample that is present and converts still has its output
\* field in the record (battery realtime readings, solar phase readings).
C16_PerFieldFailure ==
    rc_out.called =>
        LET d == rc_in.data.d
            p == rc_out.processed
        IN  /\ (rc_in.device_type = DEVICE_TYPE_BATTERY /\ rc_in.is_realtime) =>
                 /\ \A pair \in {<<"sysGridPowerWatt", "grid_power_abs">>,
                                 <<"sysTotalLoadWatt", "home_load_power">>,
                                 <<"batEnergyPercent", "battery_level">>,
                                 <<"batPower", "battery_power_abs">>} :
                       (pair[1] \in DOMAIN d /\ FloatOk(d[pair[1]])) => pair[2] \in DOMAIN p
                 /\ ("gridDirection" \in DOMAIN d /\ IntOk(d["gridDirection"])) =>
                       "grid_status_calculated" \in DOMAIN p
            /\ (/\ rc_in.device_type = DEVICE_TYPE_SOLAR
                /\ ~IsNighttime(rc_in.data, rc_in.is_realtime)) =>
                 \A i \in 1..3 :
                    /\ (/\ PhasePowerKey[i] \in DOMAIN d /\ Truthy(d[PhasePowerKey[i]])
                        /\ FloatOk(d[PhasePowerKey[i]])) => PhasePowerOut[i] \in DOMAIN p
                    /\ (/\ PhaseVoltKey[i] \in DOMAIN d /\ Truthy(d[PhaseVoltKey[i]])
                        /\ FloatOk(d[PhaseVoltKey[i]])) => PhaseVoltageOut[i] \in DOMAIN p

\* C17: a battery realtime sample without batEnergyPercent, batPower or
\* sysGridPowerWatt gives a record without battery_level, battery_power_abs or
\* grid_power_abs respectively: no 0 is put in their place.
C17_AbsentFieldOmitted ==
    (/\ rc_out.called /\ rc_in.device_type = DEVICE_TYPE_BATTERY /\ rc_in.is_realtime
     /\ rc_in.data.d # EmptyDict) =>
        \A pair \in {<<"batEnergyPercent", "battery_level">>,
                     <<"batPower", "battery_power_abs">>,
                     <<"sysGridPowerWatt", "grid_power_abs">>} :
            pair[1] \notin DOMAIN rc_in.data.d => pair[2] \notin DOMAIN rc_out.processed

\* C18: every field of a processed record is a finite number or a member of
\* its vocabulary (grid status: importing, exporting, idle; battery status:
\* Charging, Discharging, Standby).
C18_FiniteOrVocabulary ==
    rc_out.called =>
        \A key \in DOMAIN rc_out.processed :
            LET v == rc_out.processed[key]
            IN  IF key = "grid_status_calculated"
                THEN v \in {"importing", "exporting", "idle"}
                ELSE IF key = "battery_status_calculated"
                THEN v \in {"Charging", "Discharging", "Standby"}
                ELSE IF key \in {"estimated_annual_production", "estimated_annual_savings"}
                THEN v.rd # 0 /\ Abs(v.rn) \div Abs(v.rd) < INFINITY
                ELSE Abs(v) < INFINITY

\* C19: a second call of _process_device_data with the same arguments returns
\* the record of the first call, whatever happened in between (the calendar day
\* may have changed), and leaves the arguments as they were.
C19_ReconcilePure ==
    [][(rc_out.called /\ rc_out'.called) =>
          (rc_out'.processed = rc_out.processed /\ rc_in' = rc_in)]_vars

\* C20 as stated: every get_device_data call for a battery device attempts the
\* load monitoring fetch, and succeeds iff its realtime sample is non-empty.
C20_BatteryAttemptsLoadMonitoring ==
    (lastCall.type = DEVICE_TYPE_BATTERY /\ lastCall.result \in {"snapshot", "none"}) =>
        /\ "load_monitoring" \in lastCall.attempted
        /\ lastCall.result = "snapshot" <=> NonEmpty(lastCall.realtime_data)

\* C20: a get_device_data call for a battery device never attempts the load
\* monitoring fetch: it calls the plant statistics, device info and realtime
\* fetchers only, its load_monitoring stays None, and it succeeds iff the
\* realtime sample is non-empty.
C20_BatterySkipsLoadMonitoring ==
    /\ (pc # "idle" /\ devices[k].type = DEVICE_TYPE_BATTERY) =>
          /\ fetcher # "load_monitoring" /\ "load_monitoring" \notin attempted
          /\ load_monitoring = LmNone
    /\ (lastCall.type = DEVICE_TYPE_BATTERY /\ lastCall.result \in {"snapshot", "none"}) =>
          /\ lastCall.attempted = {"plant_stats", "device_info", "realtime"}
          /\ lastCall.load_monitoring = LmNone
          /\ lastCall.result = "snapshot" <=> NonEmpty(lastCall.realtime_data)

\* a battery call that returned a snapshot after its three fetchers
C20_Witness ==
    /\ lastCall.type = DEVICE_TYPE_BATTERY /\ lastCall.result = "snapshot"
    /\ lastCall.attempted = {"plant_stats", "device_info", "realtime"}
    /\ lastCall.sn \in DOMAIN data /\ data[lastCall.sn].load_monitoring = LmNone

---------------------------------------------------------------------------
(* Properties of the auxiliary fetches and of the fetchers' failures.      *)

\* C21: every get_device_data call, for every device type, calls the plant
\* statistics and the device info fetchers; whether it returns a snapshot
\* depends on the realtime, history and load monitoring results alone, and the
\* processed record is what reconciliation gives without the device info.
C21_AuxiliaryFetchesNeverBlock ==
    /\ pc # "idle" =>
          /\ "plant_stats" \in attempted
          /\ fetcher # "plant_stats" => "device_info" \in attempted
    /\ lastCall.result \in {"snapshot", "none"} =>
          LET rt == lastCall.realtime_data
              hist == lastCall.history_data
              lm == lastCall.load_monitoring
              full(r) == r.some /\ r.d # EmptyDict
          IN  /\ {"plant_stats", "device_info"} \subseteq lastCall.attempted
              /\ lastCall.result = "snapshot" <=>
                    IF lastCall.type = DEVICE_TYPE_BATTERY THEN full(rt)
                    ELSE IF lastCall.type = DEVICE_TYPE_SOLAR
                         THEN full(rt) \/ full(hist) \/ lm.some
                    ELSE full(hist)
              /\ lastCall.result = "snapshot" =>
                    /\ lastCall.sn \in DOMAIN data
                    /\ data[lastCall.sn].device_info = lastCall.device_info
                    /\ data[lastCall.sn].processed_data =
                          process_device_data(lastCall.data_to_process,
                                              lastCall.plant_stats, lastCall.type,
                                              lastCall.is_realtime,
                                              lastCall.load_monitoring, yday)
                    /\ data[lastCall.sn].processed_data =
                          Snapshot(lastCall.type, lastCall.plant_stats, None, lm, rt,
                                   hist, yday).processed_data

\* a device that got its snapshot although both the plant statistics and the
\* device info fetch had returned None
C21_Witness ==
    /\ lastCall.result = "snapshot"
    /\ lastCall.plant_stats = None /\ lastCall.device_info = None
    /\ {"plant_stats", "device_info"} \subseteq lastCall.attempted
    /\ lastCall.sn \in DOMAIN data
    /\ data[lastCall.sn].processed_data # EmptyDict

\* C22: no fetcher raises, whatever the token endpoint and the data endpoint
\* answer: no get_device_data call is ended by an exception of a fetcher, so
\* the fetchers after it are always called.
C22_FetchersNeverRaise ==
    /\ outcome # "exception"
    /\ lastCall.result # "raised"

---------------------------------------------------------------------------
(* Properties of the solar reconciliation's choice of source.              *)

\* C23: outside NIGHTTIME mode each energy field of a solar record comes from
\* the first source that provides it, in the order primary sample, load
\* monitoring totals, plant statistics: a primary value is in the record as it
\* is, and a load monitoring value is there when the primary sample has none,
\* also when the plant statistics have one.
C23_FirstSourceWins ==
    (/\ rc_out.called /\ rc_in.device_type = DEVICE_TYPE_SOLAR
     /\ ~IsNighttime(rc_in.data, rc_in.is_realtime)) =>
        LET d == rc_in.data.d
            p == rc_out.processed
            lm == rc_in.load_monitoring
            primary(key) == key \in DOMAIN d /\ FloatOk(d[key])
            fromLm(key) == lm.some /\ key \in DOMAIN lm.total /\ FloatOk(lm.total[key])
        IN  /\ \A pair \in {<<"todayPvEnergy", "today_pv_energy">>,
                            <<"todaySellEnergy", "today_grid_export_energy">>,
                            <<"totalPvEnergy", "total_pv_energy">>,
                            <<"totalSellEnergy", "total_grid_export">>} :
                  primary(pair[1]) =>
                     /\ pair[2] \in DOMAIN p
                     /\ p[pair[2]] = FloatOf(d[pair[1]])
            /\ \A pair \in {<<"todayPvEnergy", "pvEnergy", "today_pv_energy">>,
                            <<"todaySellEnergy", "sellEnergy", "today_grid_export_energy">>,
                            <<"totalSellEnergy", "sellEnergy", "total_grid_export">>} :
                  (pair[1] \notin DOMAIN d /\ fromLm(pair[2])) =>
                     /\ pair[3] \in DOMAIN p
                     /\ p[pair[3]] = FloatOf(lm.total[pair[2]])

\* C24: a solar record's grid status and grid power come from the load
\* monitoring latest buyPower - sellPower when load monitoring gives that pair;
\* when it does not (no load monitoring, or one without the pair) and the
\* primary sample has totalGridPowerWatt, they come from that signed field,
\* positive meaning importing.
C24_GridSourceFallback ==
    (/\ rc_out.called /\ rc_in.device_type = DEVICE_TYPE_SOLAR
     /\ ~IsNighttime(rc_in.data, rc_in.is_realtime)) =>
        LET d == rc_in.data.d
            p == rc_out.processed
            lm == rc_in.load_monitoring
            pair == /\ lm.some
                    /\ "buyPower" \in DOMAIN lm.latest /\ FloatOk(lm.latest["buyPower"])
                    /\ "sellPower" \in DOMAIN lm.latest /\ FloatOk(lm.latest["sellPower"])
            has(net) ==
                /\ {"grid_status_calculated", "grid_power_abs"} \subseteq DOMAIN p
                /\ p["grid_power_abs"] = Abs(net)
                /\ p["grid_status_calculated"] =
                      IF net > 0 THEN "importing"
                      ELSE IF net < 0 THEN "exporting" ELSE "idle"
        IN  /\ pair => has(FloatOf(lm.latest["buyPower"]) - FloatOf(lm.latest["sellPower"]))
            /\ (/\ ~(lm.some /\ {"buyPower", "sellPower"} \subseteq DOMAIN lm.latest)
                /\ "totalGridPowerWatt" \in DOMAIN d /\ FloatOk(d["totalGridPowerWatt"]))
               => has(FloatOf(d["totalGridPowerWatt"]))

\* C25: a solar record's home_load_power is the load monitoring latest
\* loadPower when load monitoring gives it, in any mode; when it does not and
\* the primary sample has totalLoadPowerWatt, it is that aggregate load.
C25_LoadSourceFallback ==
    (rc_out.called /\ rc_in.device_type = DEVICE_TYPE_SOLAR) =>
        LET d == rc_in.data.d
            p == rc_out.processed
            lm == rc_in.load_monitoring
            given == lm.some /\ "loadPower" \in DOMAIN lm.latest
        IN  /\ (given /\ FloatOk(lm.latest["loadPower"])) =>
                  /\ "home_load_power" \in DOMAIN p
                  /\ p["home_load_power"] = FloatOf(lm.latest["loadPower"])
            /\ (/\ ~given /\ ~IsNighttime(rc_in.data, rc_in.is_realtime)
                /\ "totalLoadPowerWatt" \in DOMAIN d /\ FloatOk(d["totalLoadPowerWatt"]))
               => /\ "home_load_power" \in DOMAIN p
                  /\ p["home_load_power"] = FloatOf(d["totalLoadPowerWatt"])

---------------------------------------------------------------------------
(* Properties of the entities that expose the published mapping.           *)

\* C26: between two polling cycles the published mapping stays as the cycle
\* left it: no read of an entity's value or attributes adds, removes or changes
\* a field of a published processed record.
C26_PublishedRecordImmutable ==
    [][(pc = "idle" /\ pc' = "idle") => coordinator'.data = coordinator.data]_vars

\* C27: a value returned by the grid power sensor is computed from the
\* processed record's grid_power_abs and grid_status_calculated; it is never
\* the history sample's totalGridPowerWatt taken as it is.
C27_GridPowerFromNormalizedPair ==
    (reading.sensor = "grid_power" /\ reading.value.some) =>
        LET p == coordinator.data[reading.sn].processed_data
        IN  /\ "grid_power_abs" \in DOMAIN p
            /\ "grid_status_calculated" \in DOMAIN p
            /\ reading.value.v \in {p["grid_power_abs"], -p["grid_power_abs"]}
            /\ reading.value.v < 0 => p["grid_status_calculated"] = "exporting"

\* C29: for a published solar snapshot, the nighttime attribute of the
\* connection status is true exactly when load monitoring is present and
\* either the selection was NIGHTTIME, or it was HISTORY with
\* total_pv_power_calculated below 5 W (the realtime sample not online); in
\* particular NIGHTTIME with load monitoring is always reported as night. The
\* connection status is on iff the realtime sample has isOnline "1".
C29_NighttimeHeuristic ==
    (/\ reading.sensor = "connection_status"
     /\ coordinator.data[reading.sn].device_type = DEVICE_TYPE_SOLAR) =>
        LET dd == coordinator.data[reading.sn]
            rt == dd.realtime_data
            sel == SelectSource(DEVICE_TYPE_SOLAR, rt, dd.history_data)
            night == IsNighttime(sel.data_to_process, sel.is_realtime)
            history_mode == ~sel.is_realtime /\ ~night
            online == rt.some /\ "isOnline" \in DOMAIN rt.d /\ rt.d["isOnline"] = Str(1)
            lm == dd.load_monitoring.some
        IN  /\ (night /\ lm) => reading.is_nighttime
            /\ reading.is_nighttime <=>
                  \/ night /\ lm
                  \/ /\ history_mode /\ lm /\ ~online
                     /\ "total_pv_power_calculated" \in DOMAIN dd.processed_data
                     /\ dd.processed_data["total_pv_power_calculated"] < 5
            /\ reading.is_on <=> online

\* a solar snapshot reconciled from a history sample with 3 W of PV power,
\* load monitoring present and the realtime sample offline, is read as night
C29_Witness ==
    /\ reading.sensor = "connection_status" /\ reading.is_nighttime /\ ~reading.is_on
    /\ reading.sn \in DOMAIN coordinator.data
    /\ coordinator.data[reading.sn].device_type = DEVICE_TYPE_SOLAR
    /\ coordinator.data[reading.sn].history_data = Some(HistoryDusk)
    /\ coordinator.data[reading.sn].realtime_data = Some(SolarOffline)
    /\ coordinator.data[reading.sn].load_monitoring.some
    /\ coordinator.data[reading.sn].processed_data["total_pv_power_calculated"] = 3

---------------------------------------------------------------------------
(* Properties of the published mapping.                                    *)

C30_SnapshotShape ==
    \A sn \in DOMAIN data :
        LET s == data[sn]
            full(r) == r.some /\ r.d # EmptyDict
        IN  /\ DOMAIN s = {"device_info", "plant_stats", "history_data", "realtime_data",
                           "load_monitoring", "device_type", "processed_data"}
            /\ \E i \in 1..Len(devices) :
                  devices[i].sn = sn /\ devices[i].type = s.device_type
            /\ IF s.device_type = DEVICE_TYPE_BATTERY
               THEN full(s.realtime_data) /\ s.history_data = None
                    /\ s.load_monitoring = LmNone
               ELSE IF s.device_type = DEVICE_TYPE_SOLAR
               THEN full(s.realtime_data) \/ full(s.history_data) \/ s.load_monitoring.some
               ELSE full(s.history_data) /\ s.realtime_data = None

\* a solar snapshot that rests on load monitoring alone
C30_Witness ==
    /\ "S1" \in DOMAIN data
    /\ data["S1"].device_type = DEVICE_TYPE_SOLAR
    /\ data["S1"].realtime_data = None /\ data["S1"].history_data = None
    /\ data["S1"].load_monitoring = LmSample
    /\ data["S1"].processed_data["home_load_power"] = 300

====
